---- MODULE Spec2Model ----
(***************************************************************************)
(* VoxFree: the audio-export pipeline of class VoxFreeApp                  *)
(* (chunkText, fetchAudioWithRetry, handleExport, handleLongExport).       *)
(* Strings are sequences of one-character strings; string indices in the   *)
(* helper operators are 0-based, as in JavaScript.                         *)
(***************************************************************************)
EXTENDS Integers, Sequences, FiniteSets, TLC

(* ---------------------------- bounds ----------------------------------- *)
\* longest text handed to chunkText in SpecChunk
MaxLen == 5
\* largest chunk bound handed to chunkText in SpecChunk
MaxSize == 3
\* CONFIG.CHUNK_SIZE (200 in the source), scaled to the lengths of ExportTexts
CHUNK_SIZE == 3
\* CONFIG.MAX_TEXT_LENGTH (5000 in the source), scaled likewise
MAX_TEXT_LENGTH == 9
\* number of handleExport calls a behaviour of Spec may start
MaxExports == 1
\* number of utterances a behaviour of SpecSpeak may create
MaxUtterances == 3

(* ------------------------ program constants ---------------------------- *)
RETRY_ATTEMPTS == 2
PROXY_URLS == <<"allorigins", "corsproxy", "codetabs">>

(* ------------------------------ strings -------------------------------- *)
Alphabet == {"a", ".", "!", "?", " ", "\n"}
\* variant: the line feed is not trimmed
WhitespaceNoLineFeed == {" ", "\t"}

\* the characters String.prototype.trim() removes, as far as texts use them
Whitespace == {" ", "\n", "\t"}
Texts == UNION {[1..n -> Alphabet] : n \in 0..MaxLen}

Min(a, b) == IF a <= b THEN a ELSE b
Max(a, b) == IF a >= b THEN a ELSE b

\* String.prototype.substring(start, end), indices clamped to the length
substring(s, start, end) ==
    LET a == Min(Max(start, 0), Len(s))
        b == Min(Max(end, 0), Len(s))
    IN  SubSeq(s, Min(a, b) + 1, Max(a, b))

\* String.prototype.trim()
RECURSIVE trimStart(_)
trimStart(s) ==
    IF s # <<>> /\ Head(s) \in Whitespace THEN trimStart(Tail(s)) ELSE s

RECURSIVE trimEnd(_)
trimEnd(s) ==
    IF s # <<>> /\ s[Len(s)] \in Whitespace
    THEN trimEnd(SubSeq(s, 1, Len(s) - 1))
    ELSE s

trim(s) == trimEnd(trimStart(s))

\* String.prototype.lastIndexOf(searchString, position): the greatest
\* 0-based index idx <= position at which searchString occurs, or -1
lastIndexOf(s, pat, position) ==
    LET hits == {idx \in 0..Min(position, Len(s) - Len(pat)) :
                    SubSeq(s, idx + 1, idx + Len(pat)) = pat}
    IN  IF hits = {} THEN -1
        ELSE CHOOSE idx \in hits : \A other \in hits : other <= idx

(* ------------------------------ chunkText ------------------------------ *)
sentenceEnders ==
    << <<".", " ">>, <<"!", " ">>, <<"?", " ">>,
       <<".", "\n">>, <<"!", "\n">>, <<"?", "\n">> >>

\* the for-loop over sentenceEnders, from the k-th ender on
RECURSIVE sentenceCut(_, _, _, _)
sentenceCut(remaining, maxSize, k, cutIndex) ==
    IF k > Len(sentenceEnders) THEN cutIndex
    ELSE LET ender == sentenceEnders[k]
             idx == lastIndexOf(remaining, ender, maxSize)
         IN  sentenceCut(remaining, maxSize, k + 1,
                         IF idx > cutIndex THEN idx + Len(ender) ELSE cutIndex)

\* the word-boundary fallback
wordCut(remaining, maxSize, cutIndex) ==
    IF cutIndex = -1 THEN lastIndexOf(remaining, <<" ">>, maxSize) ELSE cutIndex

\* variant: the forced cut is one character late
forceCutLate(maxSize, cutIndex) ==
    IF cutIndex = -1 \/ cutIndex = 0 THEN maxSize + 1 ELSE cutIndex

\* the forced cut
forceCut(maxSize, cutIndex) ==
    IF cutIndex = -1 \/ cutIndex = 0 THEN maxSize ELSE cutIndex

\* cutIndex of one loop iteration with remaining.length > maxSize
chunkCut(remaining, maxSize) ==
    forceCut(maxSize, wordCut(remaining, maxSize,
                              sentenceCut(remaining, maxSize, 1, -1)))

\* variant: the chunk is pushed without trim()
chunkHeadUntrimmed(remaining, cutIndex) == substring(remaining, 0, cutIndex)

\* chunks.push(remaining.substring(0, cutIndex).trim())
chunkHead(remaining, cutIndex) == trim(substring(remaining, 0, cutIndex))

\* variant: the remainder starts one character after the cut
chunkRestSkipsOne(remaining, cutIndex) ==
    trim(substring(remaining, cutIndex + 1, Len(remaining)))

\* remaining = remaining.substring(cutIndex).trim()
chunkRest(remaining, cutIndex) ==
    trim(substring(remaining, cutIndex, Len(remaining)))

RECURSIVE chunkLoop(_, _, _)
chunkLoop(remaining, maxSize, chunks) ==
    IF Len(remaining) = 0 THEN chunks
    ELSE IF Len(remaining) <= maxSize THEN Append(chunks, remaining)
    ELSE LET cutIndex == chunkCut(remaining, maxSize)
         IN  chunkLoop(chunkRest(remaining, cutIndex), maxSize,
                       Append(chunks, chunkHead(remaining, cutIndex)))

chunkText(text, maxSize) == chunkLoop(trim(text), maxSize, <<>>)

(* ------------- chunkText with the shipped bound, 450 characters -------- *)
\* VoxFreeApp.CONFIG.CHUNK_SIZE as shipped
SHIPPED_CHUNK_SIZE == 200

\* n times the character c
Rep(c, n) == [j \in 1..n |-> c]

\* a text of len letters in which sep starts at 0-based offset p
Broken(len, p, sep) == Rep("a", p) \o sep \o Rep("a", len - p - Len(sep))

\* a text of four sentences of 112, 110, 110 and 118 characters
FourSentences ==
    Rep("a", 110) \o <<".", " ">> \o Rep("a", 108) \o <<".", " ">>
        \o Rep("a", 108) \o <<".", " ">> \o Rep("a", 118)

\* texts of 450 characters: one unbroken token, four sentences, and texts
\* with one sentence ender or one blank at an offset around the bound
ExampleTexts ==
    LET len == 450
    IN  {Rep("a", len), FourSentences}
        \cup {Broken(len, p, sep) :
                 p \in {50, 120, 197, 198, 199, 200, 201, 300, 400},
                 sep \in {<<".", " ">>, <<" ">>, <<"!", "\n">>}}

(* ----------------------------- export calls ---------------------------- *)
Exports == 1..MaxExports

\* texts the user may have typed before clicking Download
ExportTexts ==
    { <<>>,
      <<" ", " ">>,
      <<"a", "b">>,
      <<"a", "b", " ", "c", "d">>,
      <<"a", "b", "c", "d", "e", "f", "g", "h", "i">>,
      <<"a", "b", "c", "d", "e", "f", "g", "h", "i", "j", "k">> }

\* locals and observable effects of one handleExport call that has not begun
idleExport ==
    [ pc         |-> "idle",    \* idle, fetch, blob, retryDelay, chunkDelay, done
      path       |-> "none",    \* none, invalid, short, long
      chunks     |-> <<>>,      \* chunks (short path: the one text)
      i          |-> 0,         \* loop index of handleLongExport
      attempt    |-> 1,         \* fetchAudioWithRetry: attempt
      proxyIndex |-> 0,         \* fetchAudioWithRetry: proxyIndex
      blobs      |-> <<>>,      \* blobs
      fetchLog   |-> <<>>,      \* <<attempt, proxyIndex>> of each fetch of this ladder
      event      |-> "none",    \* the last event this call handled
      returned   |-> "none",    \* what this ladder returned: none, blob, null
      opens      |-> 0,         \* window.open calls
      notified   |-> 0,         \* showError calls
      saved      |-> <<>>,      \* files handed to downloadBlob
      inflight   |-> 0,         \* fetches issued and not yet settled
      timer      |-> "none" ]   \* abort timer of the running attempt: none, armed

\* variant: the length of the text is not checked
validateInputNonEmptyOnly(text) == Len(trim(text)) # 0

\* validateInput(): the trimmed text is non-empty and within MAX_TEXT_LENGTH
validateInput(text) ==
    /\ Len(trim(text)) # 0
    /\ Len(trim(text)) <= MAX_TEXT_LENGTH

\* showError calls of a rejected handleExport: validateInput reports an
\* over-length text itself, then handleExport reports the rejection
rejectErrors(text) ==
    IF Len(trim(text)) > MAX_TEXT_LENGTH THEN 2 ELSE 1

\* the Blob a proxy returned for the request text
audioBlob(text, proxyIndex, size) ==
    [text |-> text, proxy |-> proxyIndex, size |-> size]

\* the text the running ladder of call r is fetching
ladderText(r) == r.chunks[r.i + 1]

\* setTimeout(() => controller.abort(), 10000); await fetch(proxyUrl, ...)
\* for (attempt, proxyIndex)
issueFetch(r, attempt, proxyIndex) ==
    [r EXCEPT !.pc = "fetch",
              !.attempt = attempt,
              !.proxyIndex = proxyIndex,
              !.fetchLog = Append(@, <<attempt, proxyIndex>>),
              !.inflight = @ + 1,
              !.timer = "armed"]

\* clearTimeout(timeoutId)
clearTimer(r) == [r EXCEPT !.timer = "none"]

\* the request of the running attempt is over (answered, failed or aborted)
settleFetch(r) == [r EXCEPT !.inflight = @ - 1]

\* the timer of a rejected fetch is not cleared: it is no longer the running
\* attempt's timer and stays pending until it fires
orphanTimer(r) == [r EXCEPT !.timer = "none"]

\* variant: the fetch was not given controller.signal, the timer only
\* rejects the wait
abortFetchUnsignalled(r) == [r EXCEPT !.timer = "none"]

\* the timer fires: controller.abort() ends the request
abortFetch(r) == settleFetch([r EXCEPT !.timer = "none"])

\* fetchAudioWithRetry(text, lang): attempt = 1, proxyIndex = 0
startLadder(r) ==
    issueFetch([r EXCEPT !.fetchLog = <<>>, !.returned = "none"], 1, 0)

\* catch block of fetchAudioWithRetry: which way the ladder goes from
\* (attempt, proxyIndex)
hasNextProxy(proxyIndex) == proxyIndex + 1 < Len(PROXY_URLS)

\* variant: the retry budget is compared with <=
hasRetryLeftInclusive(attempt) == attempt <= RETRY_ATTEMPTS

hasRetryLeft(attempt) == attempt < RETRY_ATTEMPTS

\* variant: a retry pass does not go back to the first proxy
retryProxyIndexKept(proxyIndex) == proxyIndex

\* the proxyIndex argument of the recursive call that starts the next pass
retryProxyIndex(proxyIndex) == 0

\* variant: a new pass is preferred to the next proxy
ladderStepRetryFirst(attempt, proxyIndex) ==
    IF hasRetryLeft(attempt)
    THEN [to |-> "retry", attempt |-> attempt + 1,
          proxyIndex |-> retryProxyIndex(proxyIndex)]
    ELSE IF hasNextProxy(proxyIndex)
    THEN [to |-> "advance", attempt |-> attempt, proxyIndex |-> proxyIndex + 1]
    ELSE [to |-> "fallback", attempt |-> attempt, proxyIndex |-> proxyIndex]

ladderStep(attempt, proxyIndex) ==
    IF hasNextProxy(proxyIndex)
    THEN [to |-> "advance", attempt |-> attempt, proxyIndex |-> proxyIndex + 1]
    ELSE IF hasRetryLeft(attempt)
    THEN [to |-> "retry", attempt |-> attempt + 1,
          proxyIndex |-> retryProxyIndex(proxyIndex)]
    ELSE [to |-> "fallback", attempt |-> attempt, proxyIndex |-> proxyIndex]

\* variant: blobs.unshift(blob)
pushBlobFront(blobs, blob) == <<blob>> \o blobs

\* blobs.push(blob)
pushBlob(blobs, blob) == Append(blobs, blob)

\* new Blob(blobs, {type: 'audio/mpeg'}): the parts in array order
concatBlobs(blobs) == blobs

\* index of the first chunk at or after j that the loop does not skip
\* (if (!chunk.trim()) continue), or chunks.length
RECURSIVE nextChunk(_, _)
nextChunk(chunks, j) ==
    IF j >= Len(chunks) THEN Len(chunks)
    ELSE IF trim(chunks[j + 1]) = <<>> THEN nextChunk(chunks, j + 1)
    ELSE j

\* Every operator below maps the record r of a call to the pair
\* [r |-> its next record, text, active |-> the status it leaves].
Leave(r, text, active) == [r |-> r, text |-> text, active |-> active]

\* variant: the final updateStatus is missing
longExportFinishSilent(r) ==
    Leave([r EXCEPT !.pc = "done",
                    !.i = Len(r.chunks),
                    !.saved = Append(@, concatBlobs(r.blobs))],
          "Processing chunk", TRUE)

\* handleLongExport after the loop: save the concatenation, report success
longExportFinish(r) ==
    Leave([r EXCEPT !.pc = "done",
                    !.i = Len(r.chunks),
                    !.saved = Append(@, concatBlobs(r.blobs))],
          "Download Complete", FALSE)

\* handleLongExport: the for loop entered at index j
longExportLoop(r, j) ==
    LET n == nextChunk(r.chunks, j)
    IN  IF n >= Len(r.chunks) THEN longExportFinish(r)
        ELSE Leave(startLadder([r EXCEPT !.i = n]), "Processing chunk", TRUE)

\* variant: a null ladder result skips the chunk instead of throwing
longExportCatchContinues(r) == longExportLoop(r, r.i + 1)

\* variant: the catch block saves the blobs collected so far
longExportCatchSavesPartial(r) ==
    Leave([r EXCEPT !.pc = "done",
                    !.notified = @ + 1,
                    !.saved = Append(@, concatBlobs(r.blobs))],
          "Error", FALSE)

\* handleLongExport: the ladder of chunk i returned null: throw, catch
longExportCatch(r) ==
    Leave([r EXCEPT !.pc = "done", !.notified = @ + 1], "Error", FALSE)

\* variant: the pause follows the last chunk as well
longExportBlobAlwaysPauses(r, blob) ==
    Leave([r EXCEPT !.blobs = pushBlob(@, blob), !.pc = "chunkDelay"],
          "Processing chunk", TRUE)

\* handleLongExport: the ladder of chunk i returned blob
longExportBlob(r, blob) ==
    LET pushed == [r EXCEPT !.blobs = pushBlob(@, blob)]
    IN  IF r.i < Len(r.chunks) - 1
        THEN Leave([pushed EXCEPT !.pc = "chunkDelay"], "Processing chunk", TRUE)
        ELSE longExportLoop(pushed, r.i + 1)

\* handleExport, short path: the ladder returned null: throw, catch
shortExportCatch(r) ==
    Leave([r EXCEPT !.pc = "done", !.notified = @ + 1], "Error", FALSE)

\* handleExport, short path: the ladder returned audioBlob
shortExportBlob(r, blob) ==
    Leave([r EXCEPT !.pc = "done", !.saved = Append(@, <<blob>>)],
          "Download Complete", FALSE)

\* fetchAudioWithRetry returns blob to the caller awaiting it
ladderReturnsBlob(r, blob) ==
    LET ret == [r EXCEPT !.returned = "blob"]
    IN  IF r.path = "long" THEN longExportBlob(ret, blob)
        ELSE shortExportBlob(ret, blob)

\* fetchAudioWithRetry: all attempts failed: window.open, showError,
\* return null to the caller awaiting it
ladderFallback(r) ==
    LET ret == [r EXCEPT !.returned = "null",
                         !.opens = @ + 1,
                         !.notified = @ + 1]
    IN  IF r.path = "long" THEN longExportCatch(ret) ELSE shortExportCatch(ret)

\* variant: every failed attempt is reported with showError
ladderCatchNotifies(r, text, active) ==
    LET step == ladderStep(r.attempt, r.proxyIndex)
        shown == [r EXCEPT !.notified = @ + 1]
    IN  CASE step.to = "advance" ->
                Leave(issueFetch(shown, step.attempt, step.proxyIndex),
                      "Error", FALSE)
          [] step.to = "retry" ->
                Leave([shown EXCEPT !.pc = "retryDelay"], "Error", FALSE)
          [] OTHER -> ladderFallback(r)

\* fetchAudioWithRetry: the attempt (attempt, proxyIndex) threw: catch
ladderCatch(r, text, active) ==
    LET step == ladderStep(r.attempt, r.proxyIndex)
    IN  CASE step.to = "advance" ->
                Leave(issueFetch(r, step.attempt, step.proxyIndex), text, active)
          [] step.to = "retry" ->
                Leave([r EXCEPT !.pc = "retryDelay"], text, active)
          [] OTHER -> ladderFallback(r)

\* variant: the size of the body is not checked
blobIsValidAlways(blob) == TRUE

\* if (blob.size === 0) throw ...; return blob
blobIsValid(blob) == blob.size # 0

(* ------------------------------- state --------------------------------- *)
VARIABLES
    ctText,       \* chunkText: argument text
    ctMaxSize,    \* chunkText: argument maxSize
    ctRemaining,  \* chunkText: local remaining
    ctChunks,     \* chunkText: local chunks
    ctPc,         \* chunkText: "ready", "loop" or "returned"
    textInput,    \* this.ui.textInput.value
    statusText,   \* this.ui.statusText.textContent
    statusActive, \* isActive of the last updateStatus call
    ex,           \* per handleExport call: its locals and its side effects
    staleTimer,   \* per handleExport call: an abort timer of an earlier,
                  \* rejected fetch is still pending
    isProcessing,     \* this.isProcessing
    currentUtterance, \* this.currentUtterance: an utterance id, 0 for null
    synthQueue,       \* speechSynthesis: ids of the utterances in its queue
    synthBegun,       \* speechSynthesis: the head of the queue is being spoken
    synthCancelled,   \* speechSynthesis: cancelled utterances whose last
                      \* event (end or error) has not been delivered yet
    utterances,       \* number of SpeechSynthesisUtterance objects created
    lastCall,         \* the last UI handler run and how it ended
    charCount,        \* the length this.ui.charCount shows
    voiceSearch,      \* this.ui.voiceSearch.value
    voiceList,        \* the voices listed in this.ui.voiceSelect
    debounceTimer     \* the callback this.debounceTimer is pending for:
                      \* "text", "voice", or "none"

ctVars == <<ctText, ctMaxSize, ctRemaining, ctChunks, ctPc>>

exVars == <<textInput, statusText, statusActive, ex, staleTimer>>

synthVars == <<synthQueue, synthBegun, synthCancelled>>

speakVars == <<isProcessing, currentUtterance, synthQueue, synthBegun,
               synthCancelled, utterances, lastCall>>

vars == <<ctText, ctMaxSize, ctRemaining, ctChunks, ctPc,
          textInput, statusText, statusActive, ex, staleTimer,
          isProcessing, currentUtterance, synthQueue, synthBegun,
          synthCancelled, utterances, lastCall,
          charCount, voiceSearch, voiceList, debounceTimer>>

uiVars == <<charCount, voiceSearch, voiceList, debounceTimer>>

\* String.prototype.toLowerCase(), for the letters the search terms use
toLowerCase(str) ==
    [j \in 1..Len(str) |->
        IF str[j] = "E" THEN "e"
        ELSE IF str[j] = "A" THEN "a"
        ELSE IF str[j] = "L" THEN "l"
        ELSE str[j]]

\* String.prototype.includes(searchString)
includes(str, pat) ==
    \E idx \in 0..(Len(str) - Len(pat)) :
        SubSeq(str, idx + 1, idx + Len(pat)) = pat

\* this.synth.getVoices()
getVoices ==
    << [name |-> <<"A", "n", "a">>, lang |-> <<"e", "n">>],
       [name |-> <<"L", "e", "a">>, lang |-> <<"f", "r">>] >>

\* populateVoices(): the voices listed for the value of the search box
populateVoices(search) ==
    LET searchTerm == trim(toLowerCase(search))
        matches(voice) ==
            \/ searchTerm = <<>>
            \/ includes(toLowerCase(voice.name), searchTerm)
            \/ includes(toLowerCase(voice.lang), searchTerm)
    IN  SelectSeq(getVoices, matches)

\* init(): populateVoices() and updateCharCount() have run, no timer is set
DebounceInit ==
    /\ charCount = Len(textInput)
    /\ voiceSearch = <<>>
    /\ voiceList = populateVoices(<<>>)
    /\ debounceTimer = "none"

\* the app and the voice engine right after the constructor
SpeakInit ==
    /\ isProcessing = FALSE
    /\ currentUtterance = 0
    /\ synthQueue = <<>>
    /\ synthBegun = FALSE
    /\ synthCancelled = {}
    /\ utterances = 0
    /\ lastCall = "none"

(* --------------------- chunkText, one step at a time ------------------- *)
ChunkInit ==
    /\ ctText \in Texts
    /\ ctMaxSize \in 1..MaxSize
    /\ ctRemaining = <<>>
    /\ ctChunks = <<>>
    /\ ctPc = "ready"
    /\ textInput = <<>>
    /\ statusText = "Ready"
    /\ statusActive = FALSE
    /\ ex = [e \in Exports |-> idleExport]
    /\ staleTimer = [e \in Exports |-> FALSE]
    /\ SpeakInit
    /\ DebounceInit

\* variant: let remaining = text;
ChunkEnterUntrimmed ==
    /\ ctPc = "ready"
    /\ ctRemaining' = ctText
    /\ ctChunks' = <<>>
    /\ ctPc' = "loop"
    /\ UNCHANGED <<ctText, ctMaxSize>>
    /\ UNCHANGED <<exVars, speakVars, uiVars>>

\* const chunks = []; let remaining = text.trim();
ChunkEnter ==
    /\ ctPc = "ready"
    /\ ctRemaining' = trim(ctText)
    /\ ctChunks' = <<>>
    /\ ctPc' = "loop"
    /\ UNCHANGED <<ctText, ctMaxSize>>
    /\ UNCHANGED <<exVars, speakVars, uiVars>>

\* while (remaining.length > 0) fails: return chunks
ChunkExit ==
    /\ ctPc = "loop"
    /\ Len(ctRemaining) = 0
    /\ ctPc' = "returned"
    /\ UNCHANGED <<ctText, ctMaxSize, ctRemaining, ctChunks>>
    /\ UNCHANGED <<exVars, speakVars, uiVars>>

\* remaining.length <= maxSize: push remaining; break; return chunks
ChunkLast ==
    /\ ctPc = "loop"
    /\ Len(ctRemaining) > 0
    /\ Len(ctRemaining) <= ctMaxSize
    /\ ctChunks' = Append(ctChunks, ctRemaining)
    /\ ctPc' = "returned"
    /\ UNCHANGED <<ctText, ctMaxSize, ctRemaining>>
    /\ UNCHANGED <<exVars, speakVars, uiVars>>

\* variant: the iteration pushes the chunk but keeps the remaining text
ChunkCutStepKeepsAll ==
    /\ ctPc = "loop"
    /\ Len(ctRemaining) > ctMaxSize
    /\ ctChunks' = Append(ctChunks, chunkHead(ctRemaining,
                                              chunkCut(ctRemaining, ctMaxSize)))
    /\ UNCHANGED <<ctText, ctMaxSize, ctPc, ctRemaining>>
    /\ UNCHANGED <<exVars, speakVars, uiVars>>

\* one full iteration that cuts a chunk off the front
ChunkCutStep ==
    /\ ctPc = "loop"
    /\ Len(ctRemaining) > ctMaxSize
    /\ LET cutIndex == chunkCut(ctRemaining, ctMaxSize)
       IN  /\ ctChunks' = Append(ctChunks, chunkHead(ctRemaining, cutIndex))
           /\ ctRemaining' = chunkRest(ctRemaining, cutIndex)
    /\ UNCHANGED <<ctText, ctMaxSize, ctPc>>
    /\ UNCHANGED <<exVars, speakVars, uiVars>>

ChunkNext == ChunkEnter \/ ChunkExit \/ ChunkLast \/ ChunkCutStep

SpecChunk == ChunkInit /\ [][ChunkNext]_vars

\* chunkText(text, 200) for the texts of 450 characters
ExampleInit ==
    /\ ctText \in ExampleTexts
    /\ ctMaxSize = SHIPPED_CHUNK_SIZE
    /\ ctRemaining = <<>>
    /\ ctChunks = <<>>
    /\ ctPc = "ready"
    /\ textInput = <<>>
    /\ statusText = "Ready"
    /\ statusActive = FALSE
    /\ ex = [e \in Exports |-> idleExport]
    /\ staleTimer = [e \in Exports |-> FALSE]
    /\ SpeakInit
    /\ DebounceInit

\* none of these texts is blank, so the loop is always left by the break
ExampleNext == ChunkEnter \/ ChunkLast \/ ChunkCutStep

SpecExample == ExampleInit /\ [][ExampleNext]_vars

(* ------------------------------ export actions ------------------------- *)
Init ==
    /\ ctText = <<>>
    /\ ctMaxSize = 1
    /\ ctRemaining = <<>>
    /\ ctChunks = <<>>
    /\ ctPc = "ready"
    /\ textInput \in ExportTexts
    /\ statusText = "Ready"
    /\ statusActive = FALSE
    /\ ex = [e \in Exports |-> idleExport]
    /\ staleTimer = [e \in Exports |-> FALSE]
    /\ SpeakInit
    /\ DebounceInit

\* the call e takes the step described by out
ApplyStep(e, out) ==
    /\ ex' = [ex EXCEPT ![e] = out.r]
    /\ statusText' = out.text
    /\ statusActive' = out.active
    /\ UNCHANGED <<textInput, ctVars, speakVars, uiVars>>

\* the same, for the steps that leave no timer behind
Apply(e, out) ==
    /\ ApplyStep(e, out)
    /\ UNCHANGED staleTimer

\* handleExport(format) up to its first await (or its return)
handleExportCall(r, input) ==
    LET text == trim(input)
    IN  IF ~validateInput(input)
        THEN Leave([r EXCEPT !.pc = "done",
                             !.path = "invalid",
                             !.notified = @ + rejectErrors(input)],
                   "Error", FALSE)
        ELSE IF Len(text) > CHUNK_SIZE
        THEN longExportLoop([r EXCEPT !.path = "long",
                                      !.chunks = chunkText(text, CHUNK_SIZE)],
                            0)
        ELSE Leave(startLadder([r EXCEPT !.path = "short",
                                         !.chunks = <<text>>]),
                   "Preparing download...", TRUE)

\* the record of call e once it has been handed the event ev
On(e, ev) == [ex[e] EXCEPT !.event = ev]

\* click on downloadBtn: the calls are numbered in the order they start
HandleExport(e) ==
    /\ ex[e].pc = "idle"
    /\ \A d \in DOMAIN ex : d < e => ex[d].pc # "idle"
    /\ Apply(e, handleExportCall(On(e, "click"), textInput))

\* a response with !response.ok: clearTimeout, throw, catch
httpError(r, text, active) ==
    ladderCatch(settleFetch(clearTimer(r)), text, active)

\* fetch resolves with a response: clearTimeout; !response.ok throws
FetchResponse(e, ok) ==
    /\ ex[e].pc = "fetch"
    /\ Apply(e, IF ok
                THEN Leave([clearTimer(On(e, "response")) EXCEPT !.pc = "blob"],
                           statusText, statusActive)
                ELSE httpError(On(e, "http"), statusText, statusActive))

\* fetch rejects: the proxy cannot be reached; clearTimeout is skipped
FetchNetworkError(e) ==
    /\ ex[e].pc = "fetch"
    /\ ApplyStep(e, ladderCatch(settleFetch(orphanTimer(On(e, "network"))),
                                statusText, statusActive))
    /\ staleTimer' = [staleTimer EXCEPT ![e] = TRUE]

\* the 10 s timer fires before the response: controller.abort(), fetch
\* rejects with AbortError
FetchTimeout(e) ==
    /\ ex[e].pc = "fetch"
    /\ ex[e].timer = "armed"
    /\ Apply(e, ladderCatch(abortFetch(On(e, "timeout")),
                            statusText, statusActive))

\* the timers left by rejected fetches fire: controller.abort() on a
\* request that is over has no effect
StaleTimersFire(e) ==
    /\ staleTimer[e]
    /\ staleTimer' = [staleTimer EXCEPT ![e] = FALSE]
    /\ UNCHANGED <<textInput, statusText, statusActive, ex, ctVars, speakVars, uiVars>>

\* response.blob() resolves with a body of the given size
BlobRead(e, size) ==
    /\ ex[e].pc = "blob"
    /\ LET blob == audioBlob(ladderText(ex[e]), ex[e].proxyIndex, size)
           r == On(e, IF size = 0 THEN "empty" ELSE "bytes")
       IN  Apply(e, IF blobIsValid(blob)
                    THEN ladderReturnsBlob(settleFetch(r), blob)
                    ELSE ladderCatch(settleFetch(r), statusText, statusActive))

\* response.blob() rejects: the connection broke while the body was read
BlobReadError(e) ==
    /\ ex[e].pc = "blob"
    /\ Apply(e, ladderCatch(settleFetch(On(e, "body")),
                            statusText, statusActive))

\* await this.delay(RETRY_DELAY) is over: next pass from the first proxy
RetryDelayElapsed(e) ==
    /\ ex[e].pc = "retryDelay"
    /\ LET step == ladderStep(ex[e].attempt, ex[e].proxyIndex)
       IN  Apply(e, Leave(issueFetch(On(e, "retryDelay"),
                                     step.attempt, step.proxyIndex),
                          statusText, statusActive))

\* await this.delay(500) is over: i++ and the next iteration
ChunkDelayElapsed(e) ==
    /\ ex[e].pc = "chunkDelay"
    /\ Apply(e, longExportLoop(On(e, "chunkDelay"), ex[e].i + 1))

(* ------------------------- speak, stop, voice engine ------------------- *)
\* what this.synth.speaking may read as: true while the head of the queue
\* is being spoken, false with an empty queue; for a queued utterance that
\* has not begun it depends on the engine (false by the Web Speech API
\* definition, true in engines that count the queue)
synthSpeaking ==
    IF synthQueue = <<>> THEN {FALSE}
    ELSE IF synthBegun THEN {TRUE}
    ELSE {FALSE, TRUE}

\* the utterances this.synth.cancel() removes
cancelledBy(queue) == {queue[j] : j \in 1..Len(queue)}

\* variant: stop() without this.isProcessing = false
StopKeepsProcessing ==
    /\ synthQueue' = <<>>
    /\ synthBegun' = FALSE
    /\ synthCancelled' = synthCancelled \cup cancelledBy(synthQueue)
    /\ currentUtterance' = 0
    /\ statusText' = "Stopped"
    /\ statusActive' = FALSE
    /\ lastCall' = "stop"
    /\ UNCHANGED <<isProcessing, utterances, textInput, ex, staleTimer, ctVars, uiVars>>

\* variant: stop() also ends the export calls in progress
StopEndsExports ==
    /\ synthQueue' = <<>>
    /\ synthBegun' = FALSE
    /\ synthCancelled' = synthCancelled \cup cancelledBy(synthQueue)
    /\ isProcessing' = FALSE
    /\ currentUtterance' = 0
    /\ statusText' = "Stopped"
    /\ statusActive' = FALSE
    /\ lastCall' = "stop"
    /\ ex' = [e \in DOMAIN ex |->
                IF ex[e].pc \in {"idle", "done"} THEN ex[e]
                ELSE [ex[e] EXCEPT !.pc = "done", !.inflight = 0,
                                   !.timer = "none"]]
    /\ UNCHANGED <<utterances, textInput, staleTimer, ctVars, uiVars>>

\* stop(): click on stopBtn
Stop ==
    /\ synthQueue' = <<>>
    /\ synthBegun' = FALSE
    /\ synthCancelled' = synthCancelled \cup cancelledBy(synthQueue)
    /\ isProcessing' = FALSE
    /\ currentUtterance' = 0
    /\ statusText' = "Stopped"
    /\ statusActive' = FALSE
    /\ lastCall' = "stop"
    /\ UNCHANGED <<utterances, textInput, ex, staleTimer, ctVars, uiVars>>

\* handleSpeak(): click on speakBtn or Ctrl/Cmd+Enter; speaking is the
\* value this.synth.speaking reads as
HandleSpeak(speaking) ==
    /\ speaking \in synthSpeaking
    /\ IF isProcessing
       THEN /\ lastCall' = "speak:locked"
            /\ UNCHANGED <<statusText, statusActive, isProcessing,
                           currentUtterance, synthVars, utterances>>
       ELSE IF ~validateInput(textInput)
       THEN /\ lastCall' = "speak:invalid"
            /\ statusText' = "Error"
            /\ statusActive' = FALSE
            /\ UNCHANGED <<isProcessing, currentUtterance, synthVars,
                           utterances>>
       ELSE /\ utterances < MaxUtterances
            /\ lastCall' = "speak:submitted"
            /\ utterances' = utterances + 1
            /\ currentUtterance' = utterances + 1
            /\ synthQueue' = Append(IF speaking THEN <<>> ELSE synthQueue,
                                    utterances + 1)
            /\ synthBegun' = (~speaking /\ synthBegun)
            /\ synthCancelled' =
                   IF speaking
                   THEN synthCancelled \cup cancelledBy(synthQueue)
                   ELSE synthCancelled
            /\ UNCHANGED <<statusText, statusActive, isProcessing>>
    /\ UNCHANGED <<textInput, ex, staleTimer, ctVars, uiVars>>

\* utterance.onend
onend ==
    /\ isProcessing' = FALSE
    /\ statusText' = "Ready"
    /\ statusActive' = FALSE
    /\ currentUtterance' = 0

\* utterance.onerror: updateStatus('Error occurred'), then showError
onerror ==
    /\ isProcessing' = FALSE
    /\ statusText' = "Error"
    /\ statusActive' = FALSE
    /\ currentUtterance' = 0

\* the engine begins to speak the head of its queue: utterance.onstart
UtteranceStart ==
    /\ synthQueue # <<>>
    /\ ~synthBegun
    /\ synthBegun' = TRUE
    /\ isProcessing' = TRUE
    /\ statusText' = "Speaking..."
    /\ statusActive' = TRUE
    /\ UNCHANGED <<synthQueue, synthCancelled, currentUtterance, utterances,
                   lastCall, textInput, ex, staleTimer, ctVars, uiVars>>

\* the engine has spoken the head of its queue to the end
UtteranceEnd ==
    /\ synthQueue # <<>>
    /\ synthBegun
    /\ synthQueue' = Tail(synthQueue)
    /\ synthBegun' = FALSE
    /\ onend
    /\ UNCHANGED <<synthCancelled, utterances, lastCall, textInput, ex,
                   staleTimer, ctVars, uiVars>>

\* the engine fails on the head of its queue
UtteranceError ==
    /\ synthQueue # <<>>
    /\ synthQueue' = Tail(synthQueue)
    /\ synthBegun' = FALSE
    /\ onerror
    /\ UNCHANGED <<synthCancelled, utterances, lastCall, textInput, ex,
                   staleTimer, ctVars, uiVars>>

\* the last event of a cancelled utterance is delivered: end in some
\* engines, error (interrupted, canceled) in others
CancelledEvent(u, kind) ==
    /\ u \in synthCancelled
    /\ synthCancelled' = synthCancelled \ {u}
    /\ IF kind = "end" THEN onend ELSE onerror
    /\ UNCHANGED <<synthQueue, synthBegun, utterances, lastCall, textInput,
                   ex, staleTimer, ctVars, uiVars>>

\* the steps of the export call e
ExportStep(e) ==
    \/ HandleExport(e)
    \/ \E ok \in BOOLEAN : FetchResponse(e, ok)
    \/ FetchNetworkError(e)
    \/ FetchTimeout(e)
    \/ \E size \in {0, 1} : BlobRead(e, size)
    \/ BlobReadError(e)
    \/ RetryDelayElapsed(e)
    \/ ChunkDelayElapsed(e)
    \/ StaleTimersFire(e)

Next ==
    \E e \in Exports : ExportStep(e)

Spec == Init /\ [][Next]_vars

(* ------------------------ speaking without exports --------------------- *)
SpeakTexts ==
    { <<" ">>,
      <<"a", "b">> }

InitSpeak ==
    /\ ctText = <<>>
    /\ ctMaxSize = 1
    /\ ctRemaining = <<>>
    /\ ctChunks = <<>>
    /\ ctPc = "ready"
    /\ textInput \in SpeakTexts
    /\ statusText = "Ready"
    /\ statusActive = FALSE
    /\ ex = [e \in Exports |-> idleExport]
    /\ staleTimer = [e \in Exports |-> FALSE]
    /\ SpeakInit
    /\ DebounceInit

NextSpeak ==
    \/ \E speaking \in BOOLEAN : HandleSpeak(speaking)
    \/ Stop
    \/ UtteranceStart
    \/ UtteranceEnd
    \/ UtteranceError
    \/ \E u \in 1..MaxUtterances, kind \in {"end", "error"} :
          CancelledEvent(u, kind)

SpecSpeak == InitSpeak /\ [][NextSpeak]_vars

(* --------------------------- debounced inputs -------------------------- *)
\* values the user may give the text area
TypedTexts ==
    { <<>>, <<"a">>, <<"a", "b">>, [j \in 1..(MAX_TEXT_LENGTH + 1) |-> "a"] }

\* values the user may give the voice search box
SearchTerms ==
    { <<>>, <<" ">>, <<"E", "n">>, <<"f">> }

\* input event of the text area: the value changed to t
TextInputEvent(t) ==
    /\ t # textInput
    /\ textInput' = t
    /\ debounceTimer' = "text"
    /\ UNCHANGED <<charCount, voiceSearch, voiceList, statusText,
                   statusActive, ex, staleTimer, ctVars, speakVars>>

\* input event of the voice search box: the value changed to q
VoiceSearchEvent(q) ==
    /\ q # voiceSearch
    /\ voiceSearch' = q
    /\ debounceTimer' = "voice"
    /\ UNCHANGED <<charCount, voiceList, textInput, statusText,
                   statusActive, ex, staleTimer, ctVars, speakVars>>

\* DEBOUNCE_DELAY has passed since the timer was set: its callback runs
DebounceElapsed ==
    /\ debounceTimer # "none"
    /\ debounceTimer' = "none"
    /\ IF debounceTimer = "text"
       THEN /\ charCount' = Len(textInput)
            /\ IF Len(trim(textInput)) > MAX_TEXT_LENGTH
               THEN statusText' = "Error" /\ statusActive' = FALSE
               ELSE UNCHANGED <<statusText, statusActive>>
            /\ UNCHANGED voiceList
       ELSE /\ voiceList' = populateVoices(voiceSearch)
            /\ UNCHANGED <<charCount, statusText, statusActive>>
    /\ UNCHANGED <<textInput, voiceSearch, ex, staleTimer, ctVars, speakVars>>

\* speechSynthesis.onvoiceschanged
VoicesChanged ==
    /\ voiceList' = populateVoices(voiceSearch)
    /\ UNCHANGED <<charCount, voiceSearch, debounceTimer, textInput,
                   statusText, statusActive, ex, staleTimer, ctVars,
                   speakVars>>

InitDebounce ==
    /\ ctText = <<>>
    /\ ctMaxSize = 1
    /\ ctRemaining = <<>>
    /\ ctChunks = <<>>
    /\ ctPc = "ready"
    /\ textInput = <<>>
    /\ statusText = "Ready"
    /\ statusActive = FALSE
    /\ ex = [e \in Exports |-> idleExport]
    /\ staleTimer = [e \in Exports |-> FALSE]
    /\ SpeakInit
    /\ DebounceInit

NextDebounce ==
    \/ \E t \in TypedTexts : TextInputEvent(t)
    \/ \E q \in SearchTerms : VoiceSearchEvent(q)
    \/ DebounceElapsed
    \/ VoicesChanged

SpecDebounce == InitDebounce /\ [][NextDebounce]_vars

(* ------------- Download clicked again while an export runs ------------- *)
\* the clicks on downloadBtn: nothing disables the button during an export
Clicks == {1, 2}

ReclickTexts ==
    { <<"a", "b">>,
      <<"a", "b", " ", "c", "d">> }

InitReclick ==
    /\ ctText = <<>>
    /\ ctMaxSize = 1
    /\ ctRemaining = <<>>
    /\ ctChunks = <<>>
    /\ ctPc = "ready"
    /\ textInput \in ReclickTexts
    /\ statusText = "Ready"
    /\ statusActive = FALSE
    /\ ex = [e \in Clicks |-> idleExport]
    /\ staleTimer = [e \in Clicks |-> FALSE]
    /\ SpeakInit
    /\ DebounceInit

NextReclick ==
    \/ \E e \in Clicks : ExportStep(e)
    \/ Stop

SpecReclick == InitReclick /\ [][NextReclick]_vars

(* ------------------------------- properties ---------------------------- *)
NumProxies == Len(PROXY_URLS)

FailureEvents == {"http", "network", "timeout", "empty", "body"}

\* the call e handles an event in this step
Steps(e) == ex'[e] # ex[e]

\* C1: the manual fallback (window.open, return null) happens only after
\* exactly k*r fetches of the chunk, k = number of proxies, r =
\* RETRY_ATTEMPTS, and a ladder never issues more fetches than that
C1_FallbackAfterAllFetches ==
    \A e \in Exports :
        /\ Len(ex[e].fetchLog) <= NumProxies * RETRY_ATTEMPTS
        /\ ex[e].opens <= 1
        /\ (ex[e].opens = 1) <=> (ex[e].returned = "null")
        /\ ex[e].returned = "null"
              => /\ Len(ex[e].fetchLog) = NumProxies * RETRY_ATTEMPTS
                 /\ ex[e].event \in FailureEvents
                 /\ ex[e].pc = "done"

C1_Witness ==
    \E e \in Exports :
        /\ ex[e].returned = "null"
        /\ Len(ex[e].fetchLog) = 6
        /\ ex[e].path = "short"

\* C2: every chunk chunkText returns has length at most maxSize
C2_ChunksWithinBound ==
    ctPc = "returned"
        => \A j \in 1..Len(ctChunks) : Len(ctChunks[j]) <= ctMaxSize

\* rest = c1 w1 c2 w2 ... cn for runs w1, w2, ... of whitespace
RECURSIVE Reassembles(_, _)
Reassembles(rest, cs) ==
    IF cs = <<>> THEN rest = <<>>
    ELSE LET c == Head(cs)
         IN  /\ Len(c) <= Len(rest)
             /\ SubSeq(rest, 1, Len(c)) = c
             /\ IF Len(cs) = 1 THEN Len(rest) = Len(c)
                ELSE \E w \in 0..(Len(rest) - Len(c)) :
                        /\ \A j \in 1..w : rest[Len(c) + j] \in Whitespace
                        /\ Reassembles(SubSeq(rest, Len(c) + w + 1, Len(rest)),
                                       Tail(cs))

\* the text with the whitespace at its two ends removed, by position
TrimmedText(t) ==
    LET solid == {j \in 1..Len(t) : t[j] \notin Whitespace}
    IN  IF solid = {} THEN <<>>
        ELSE SubSeq(t, CHOOSE a \in solid : \A b \in solid : a <= b,
                       CHOOSE a \in solid : \A b \in solid : a >= b)

\* C3: the chunks in order reproduce the trimmed text, nothing dropped,
\* duplicated or reordered, up to whitespace removed at the chunk boundaries
C3_ChunksReassemble ==
    ctPc = "returned" => Reassembles(TrimmedText(ctText), ctChunks)

C3_Witness ==
    /\ ctPc = "returned"
    /\ Len(ctChunks) = 2
    /\ Len(ctChunks[1]) + Len(ctChunks[2]) < Len(TrimmedText(ctText))

\* C4: the blobs collected, and the file saved, by a multi-chunk export hold
\* the audio of the chunks in chunk order
C4_BlobsInChunkOrder ==
    \A e \in Exports :
        ex[e].path = "long"
            => /\ Len(ex[e].blobs) <= Len(ex[e].chunks)
               /\ \A j \in 1..Len(ex[e].blobs) :
                      ex[e].blobs[j].text = ex[e].chunks[j]
               /\ \A f \in 1..Len(ex[e].saved) :
                      /\ Len(ex[e].saved[f]) = Len(ex[e].chunks)
                      /\ \A j \in 1..Len(ex[e].chunks) :
                             ex[e].saved[f][j].text = ex[e].chunks[j]

C4_Witness ==
    \E e \in Exports :
        /\ ex[e].path = "long"
        /\ Len(ex[e].chunks) = 3
        /\ Len(ex[e].saved) = 1
        /\ ex[e].saved[1][1].proxy = 2
        /\ ex[e].saved[1][2].proxy = 0
        /\ ex[e].saved[1][3].proxy = 1

\* C5: once the ladder of a chunk of a multi-chunk export is exhausted,
\* window.open has been called exactly once and the call does nothing
\* more: no fetch for a later chunk, no second window.open
C5_ExhaustionAbortsExport ==
    [][\A e \in Exports :
          ex[e].path = "long"
            => /\ ex'[e].opens <= 1
               /\ ex'[e].returned = "null" => ex'[e].opens = 1
               /\ ex[e].opens >= 1 => ex'[e] = ex[e]]_vars

C5_Witness ==
    \E e \in Exports :
        /\ ex[e].path = "long"
        /\ Len(ex[e].chunks) = 3
        /\ ex[e].i = 1
        /\ ex[e].returned = "null"
        /\ ex[e].opens = 1
        /\ ex[e].pc = "done"

\* C6: an export call always resolves: when its input is rejected, when a
\* ladder returns null and when the last chunk's ladder returns a blob, the
\* call is done in the same step and leaves the status inactive, showing
\* 'Download Complete' or 'Error'
C6_ExportAlwaysResolves ==
    [][\A e \in Exports :
          /\ ex'[e].pc \in {"idle", "fetch", "blob", "retryDelay",
                             "chunkDelay", "done"}
          /\ ( /\ Steps(e)
               /\ \/ ex'[e].path = "invalid"
                  \/ ex'[e].returned = "null"
                  \/ /\ ex'[e].returned = "blob"
                     /\ Len(ex'[e].blobs) = Len(ex'[e].chunks)
                  \/ ex'[e].pc = "done" )
              => /\ ex'[e].pc = "done"
                 /\ ~statusActive'
                 /\ statusText' \in {"Download Complete", "Error"}]_vars

C6_Witness ==
    \E e \in Exports :
        /\ ex[e].pc = "done"
        /\ ex[e].path = "long"
        /\ ex[e].returned = "null"
        /\ statusText = "Error"
        /\ ~statusActive

\* C7: downloadBlob is called exactly once by an export all of whose
\* ladders returned bytes, and never by one with an exhausted ladder
C7_SaveOnlyOnFullSuccess ==
    \A e \in Exports :
        /\ Len(ex[e].saved) <= 1
        /\ ex[e].opens >= 1 => ex[e].saved = <<>>
        /\ ex[e].pc # "done" => ex[e].saved = <<>>
        /\ (ex[e].pc = "done" /\ ex[e].path \in {"short", "long"}
               /\ ex[e].opens = 0)
              => Len(ex[e].saved) = 1
        /\ (ex[e].path = "long" /\ Len(ex[e].saved) = 1)
              => Len(ex[e].blobs) = Len(ex[e].chunks)

C7_Witness ==
    \E e \in Exports :
        /\ ex[e].pc = "done"
        /\ ex[e].path = "long"
        /\ ex[e].opens = 1
        /\ Len(ex[e].blobs) = 2
        /\ ex[e].saved = <<>>

\* C8: a ladder that returns a blob from proxy p (1-based) of pass a has
\* issued exactly (a-1)*k + p fetches, the last of them to that proxy, has
\* not opened the manual fallback, and the export goes on: to the pause
\* before the next chunk, or to the save when there is none
C8_FetchesUntilFirstSuccess ==
    \A e \in Exports :
        ex[e].returned = "blob"
            => /\ Len(ex[e].fetchLog)
                    = (ex[e].attempt - 1) * NumProxies + (ex[e].proxyIndex + 1)
               /\ ex[e].fetchLog[Len(ex[e].fetchLog)]
                    = <<ex[e].attempt, ex[e].proxyIndex>>
               /\ ex[e].opens = 0
               /\ IF ex[e].path = "long" /\ ex[e].i < Len(ex[e].chunks) - 1
                  THEN /\ ex[e].pc = "chunkDelay"
                       /\ Len(ex[e].blobs) = ex[e].i + 1
                  ELSE /\ ex[e].pc = "done"
                       /\ Len(ex[e].saved) = 1

C8_Witness ==
    \E e \in Exports :
        /\ ex[e].returned = "blob"
        /\ ex[e].attempt = 1
        /\ ex[e].proxyIndex = 1
        /\ Len(ex[e].fetchLog) = 2
        /\ ex[e].pc = "chunkDelay"

\* what the ladder of a call with record r is to do after a failed attempt
ExpectedStep(r) ==
    IF r.proxyIndex + 1 < NumProxies
    THEN [pc |-> "fetch", returned |-> "none",
          fetchLog |-> Append(r.fetchLog, <<r.attempt, r.proxyIndex + 1>>)]
    ELSE IF r.attempt < RETRY_ATTEMPTS
    THEN [pc |-> "retryDelay", returned |-> "none", fetchLog |-> r.fetchLog]
    ELSE [pc |-> "done", returned |-> "null", fetchLog |-> r.fetchLog]

LadderView(r) ==
    [pc |-> r.pc, returned |-> r.returned, fetchLog |-> r.fetchLog]

\* C9: every ladder starts at the first proxy of the first pass; a failed
\* attempt moves to the next proxy in the same pass if there is one, else
\* to the first proxy of the next pass if the retry budget allows, else to
\* the fallback; no (pass, proxy) is fetched twice for one chunk
C9_LadderOrder ==
    [][\A e \in Exports :
          /\ ex'[e].fetchLog # <<>> => ex'[e].fetchLog[1] = <<1, 0>>
          /\ (Steps(e) /\ ex[e].pc \in {"idle", "chunkDelay"}
                /\ ex'[e].pc = "fetch")
               => ex'[e].fetchLog = << <<1, 0>> >>
          /\ (Steps(e) /\ ex'[e].event \in FailureEvents)
               => LadderView(ex'[e]) = ExpectedStep(ex[e])
          /\ (Steps(e) /\ ex[e].pc = "retryDelay")
               => /\ ex'[e].pc = "fetch"
                  /\ ex'[e].fetchLog
                       = Append(ex[e].fetchLog, <<ex[e].attempt + 1, 0>>)
          /\ \A a, b \in 1..Len(ex'[e].fetchLog) :
                ex'[e].fetchLog[a] = ex'[e].fetchLog[b] => a = b
          /\ ex'[e].pc \in {"fetch", "blob"}
               => ex'[e].fetchLog[Len(ex'[e].fetchLog)]
                    = <<ex'[e].attempt, ex'[e].proxyIndex>>]_vars

C9_Witness ==
    \E e \in Exports :
        /\ ex[e].path = "long"
        /\ ex[e].i = 1
        /\ ex[e].pc = "fetch"
        /\ ex[e].fetchLog = << <<1, 0>>, <<1, 1>>, <<1, 2>>, <<2, 0>>, <<2, 1>> >>

\* C10: after a failed attempt the call is left exactly as an HTTP error
\* at the same ladder state leaves it, whether the attempt failed by HTTP
\* status, network error, timeout or empty body; no blob of size 0 is ever
\* collected or saved
C10_FailuresTreatedAlike ==
    [][\A e \in Exports :
          /\ (Steps(e) /\ ex'[e].event \in FailureEvents)
               => ex'[e]
                    = [httpError([ex[e] EXCEPT !.event = "http"],
                                 statusText, statusActive).r
                         EXCEPT !.event = ex'[e].event]
          /\ \A j \in 1..Len(ex'[e].blobs) : ex'[e].blobs[j].size > 0
          /\ \A f \in 1..Len(ex'[e].saved) :
                \A j \in 1..Len(ex'[e].saved[f]) :
                    ex'[e].saved[f][j].size > 0]_vars

C10_Witness ==
    \E e \in Exports :
        /\ ex[e].event = "empty"
        /\ ex[e].pc = "fetch"
        /\ ex[e].fetchLog = << <<1, 0>>, <<1, 1>> >>
        /\ ex[e].blobs = <<>>

\* the text is empty or whitespace-only, or too long, once trimmed
Rejectable(t) ==
    \/ TrimmedText(t) = <<>>
    \/ Len(TrimmedText(t)) > MAX_TEXT_LENGTH

\* C11: an export of an empty, whitespace-only or over-length text is
\* rejected at the click: it never fetches, opens no window and saves no
\* file, and the user is notified
C11_InvalidTextRejectedUpFront ==
    \A e \in DOMAIN ex :
        /\ (ex[e].pc # "idle" /\ Rejectable(textInput))
              => /\ ex[e].path = "invalid"
                 /\ ex[e].pc = "done"
                 /\ ex[e].fetchLog = <<>>
                 /\ ex[e].blobs = <<>>
                 /\ ex[e].opens = 0
                 /\ ex[e].saved = <<>>
                 /\ ex[e].notified >= 1
        /\ ex[e].path = "invalid" => Rejectable(textInput)

C11_Witness ==
    \E e \in DOMAIN ex :
        /\ ex[e].path = "invalid"
        /\ Len(TrimmedText(textInput)) > MAX_TEXT_LENGTH
        /\ ex[e].notified = 2
        /\ statusText = "Error"

\* C12: a failed attempt of a ladder that goes on is not shown to the user:
\* with valid input, showError, the 'Error' status and window.open occur
\* only in the step that exhausts a ladder
C12_SoftFailuresInvisible ==
    [][\A e \in DOMAIN ex :
          /\ ( /\ Steps(e)
               /\ ex'[e].path # "invalid"
               /\ \/ ex'[e].notified # ex[e].notified
                  \/ ex'[e].opens # ex[e].opens
                  \/ statusText' = "Error" /\ statusText # "Error" )
              => /\ ex'[e].returned = "null"
                 /\ ex[e].returned = "none"
                 /\ Len(ex[e].fetchLog) = NumProxies * RETRY_ATTEMPTS
          /\ ex'[e].returned = "blob"
              => ex'[e].notified = 0 /\ ex'[e].opens = 0]_vars

C12_Witness ==
    \E e \in DOMAIN ex :
        /\ ex[e].returned = "blob"
        /\ ex[e].fetchLog = << <<1, 0>>, <<1, 1>>, <<1, 2>>, <<2, 0>> >>
        /\ ex[e].notified = 0
        /\ ex[e].opens = 0
        /\ statusText = "Download Complete"

\* C13: a call has at most one fetch outstanding, and the first fetch of
\* the next chunk is issued only when the ladder of the chunk before has
\* returned a blob and no fetch is outstanding
C13_FetchesSerialized ==
    [][\A e \in DOMAIN ex :
          /\ ex'[e].inflight \in {0, 1}
          /\ (ex'[e].inflight = 1) <=> (ex'[e].pc \in {"fetch", "blob"})
          /\ ex'[e].inflight > ex[e].inflight => ex[e].inflight = 0
          /\ (ex[e].path = "long" /\ ex'[e].i # ex[e].i
                /\ ex'[e].pc = "fetch")
               => /\ ex'[e].i = ex[e].i + 1
                  /\ ex[e].returned = "blob"
                  /\ Len(ex[e].blobs) = ex[e].i + 1
                  /\ ex[e].blobs[ex[e].i + 1].text = ex[e].chunks[ex[e].i + 1]
                  /\ ex[e].inflight = 0]_vars

C13_Witness ==
    \E e \in DOMAIN ex :
        /\ ex[e].path = "long"
        /\ ex[e].i = 2
        /\ ex[e].pc = "fetch"
        /\ ex[e].inflight = 1
        /\ ex[e].event = "timeout"
        /\ Len(ex[e].blobs) = 2

\* C14: at most one export call is in progress at any time
C14_OneExportAtATime ==
    Cardinality({e \in DOMAIN ex : ex[e].pc \notin {"idle", "done"}}) <= 1

\* C18: every attempt that is not over, whether its response has not begun
\* or its body has not fully arrived, has its abort timer pending, so that
\* the attempt ends at the latest when the timer fires
C18_UnfinishedAttemptHasTimer ==
    \A e \in DOMAIN ex :
        ex[e].pc \in {"fetch", "blob"} => ex[e].timer = "armed"


\* C15: after any sequence of speak requests, stop requests and engine
\* callbacks, the voice engine holds at most one utterance of the app,
\* speaking or queued.
C15_OneActiveUtterance ==
    Len(synthQueue) <= 1

\* a stop request that finds an utterance being spoken
StopsSpeech == synthBegun /\ lastCall' = "stop"

\* a speak request that follows a stop request with nothing in between
SpeakAfterStop == lastCall = "stop" /\ lastCall' # "stop"

\* C16: a stop request made while an utterance is being spoken leaves, in
\* that same step, isProcessing cleared and the status display inactive; a
\* speak request that follows it directly with valid text is not locked out
\* but creates an utterance and hands it to the engine.
C16_StopThenSpeakAccepted ==
    [][/\ StopsSpeech =>
            /\ ~isProcessing'
            /\ ~statusActive'
            /\ statusText' = "Stopped"
       /\ (SpeakAfterStop /\ validateInput(textInput)) =>
            /\ lastCall' = "speak:submitted"
            /\ utterances' = utterances + 1
            /\ currentUtterance' = utterances'
            /\ synthQueue' = <<utterances'>>]_vars

\* utterance 1 was stopped, the speak request after the stop created
\* utterance 2, which now waits in the engine
C16_Witness ==
    /\ lastCall = "speak:submitted"
    /\ statusText = "Stopped"
    /\ ~statusActive
    /\ ~isProcessing
    /\ utterances = 2
    /\ synthCancelled = {1}
    /\ synthQueue = <<2>>
    /\ currentUtterance = 2

\* a step of stop() that changes something
StopStep ==
    /\ lastCall' = "stop"
    /\ statusText' = "Stopped"
    /\ lastCall # "stop" \/ statusText # "Stopped"

\* C17: a stop request leaves every export call as it was: position, ladder
\* state, collected blobs, outstanding fetch and its timer, so the call
\* continues from exactly the state it would have had without the stop.
C17_StopLeavesExportsAlone ==
    [][StopStep => (ex' = ex /\ staleTimer' = staleTimer)]_vars

\* the status reads Stopped while the fetch for the second chunk of a long
\* export is outstanding and the blob of the first chunk is kept
C17_Witness ==
    /\ lastCall = "stop"
    /\ statusText = "Stopped"
    /\ \E e \in DOMAIN ex :
          /\ ex[e].path = "long"
          /\ ex[e].pc = "fetch"
          /\ ex[e].inflight = 1
          /\ ex[e].timer = "armed"
          /\ ex[e].i = 1
          /\ Len(ex[e].blobs) = 1

\* C19: a text whose trimmed content is not empty and not longer than
\* maxSize is returned as exactly one chunk, the trimmed text.
C19_ShortTextIsOneChunk ==
    (/\ ctPc = "returned"
     /\ TrimmedText(ctText) # <<>>
     /\ Len(TrimmedText(ctText)) <= ctMaxSize)
        => ctChunks = <<TrimmedText(ctText)>>

\* a padded text whose content just fits the bound came back as one chunk
C19_Witness ==
    /\ ctPc = "returned"
    /\ ctText # TrimmedText(ctText)
    /\ Len(TrimmedText(ctText)) = ctMaxSize
    /\ ctMaxSize > 1
    /\ Len(ctChunks) = 1

\* the text is empty or has only blanks, tabs and line feeds
OnlyBlank(text) == \A j \in 1..Len(text) : text[j] \in {" ", "\t", "\n"}

\* C20: for every bound, chunkText of the empty text or of a text of
\* whitespace only returns no chunk.
C20_BlankTextNoChunks ==
    (ctPc = "returned" /\ OnlyBlank(ctText)) => ctChunks = <<>>

\* chunkText returned for a text of a blank, a line feed and a blank
C20_Witness ==
    /\ ctPc = "returned"
    /\ ctText = <<" ", "\n", " ">>
    /\ ctChunks = <<>>


\* the text has no blank, tab or line feed
NoBlank(text) == \A j \in 1..Len(text) : text[j] \notin {" ", "\t", "\n"}

\* the chunks written one after the other
RECURSIVE Concat(_)
Concat(cs) == IF cs = <<>> THEN <<>> ELSE Head(cs) \o Concat(Tail(cs))

\* C21: a text without whitespace that is longer than maxSize is cut at
\* exactly maxSize each time: ceil(L / maxSize) chunks come back, every
\* chunk but the last has maxSize characters, and the chunks written one
\* after the other are the text.
C21_TokenCutAtBound ==
    (ctPc = "returned" /\ NoBlank(ctText) /\ Len(ctText) > ctMaxSize)
        => /\ Len(ctChunks) = (Len(ctText) + ctMaxSize - 1) \div ctMaxSize
           /\ \A k \in 1..(Len(ctChunks) - 1) : Len(ctChunks[k]) = ctMaxSize
           /\ Concat(ctChunks) = ctText

\* a token of five characters came back in chunks of two, two and one
C21_Witness ==
    /\ ctPc = "returned"
    /\ NoBlank(ctText)
    /\ Len(ctText) = 5
    /\ ctMaxSize = 2
    /\ Len(ctChunks) = 3
    /\ Len(ctChunks[3]) = 1


\* C22: for a text of 450 characters and the bound 200, chunkText returns
\* exactly 3 chunks, each of at most 200 characters.
C22_ThreeChunksOf450 ==
    (ctPc = "returned" /\ Len(ctText) = 450 /\ ctMaxSize = 200)
        => /\ Len(ctChunks) = 3
           /\ \A k \in 1..Len(ctChunks) : Len(ctChunks[k]) <= 200


\* a sentence ender starts at the 0-based offset idx of s
EnderAt(s, idx) ==
    /\ idx + 2 <= Len(s)
    /\ s[idx + 1] \in {".", "!", "?"}
    /\ s[idx + 2] \in {" ", "\n"}

\* the offsets up to n at which a sentence ender starts
EnderStarts(s, n) == {idx \in 0..n : EnderAt(s, idx)}

\* the offsets up to n that hold a blank, a line feed or a tab
BlankOffsets(s, n) ==
    {idx \in 0..Min(n, Len(s) - 1) : s[idx + 1] \in {" ", "\n", "\t"}}

Greatest(S) == CHOOSE a \in S : \A b \in S : b <= a

\* an iteration of the loop that cuts a chunk off the remaining text
CutsChunk ==
    /\ ctPc = "loop"
    /\ Len(ctRemaining) > ctMaxSize
    /\ ctChunks' # ctChunks

\* the iteration cut the remaining text at the 0-based offset cut
CutAt(cut) ==
    /\ ctChunks' = Append(ctChunks, TrimmedText(SubSeq(ctRemaining, 1, cut)))
    /\ ctRemaining' =
          TrimmedText(SubSeq(ctRemaining, cut + 1, Len(ctRemaining)))

\* C23: when the remaining text is longer than maxSize and a sentence ender
\* starts at or before offset maxSize, the cut is made right after the last
\* such ender, whichever of the six it is.
C23_CutAfterLastEnder ==
    [][(CutsChunk /\ EnderStarts(ctRemaining, ctMaxSize) # {})
          => CutAt(Greatest(EnderStarts(ctRemaining, ctMaxSize)) + 2)]_vars

\* C24: when the remaining text is longer than maxSize and no sentence
\* ender starts at or before offset maxSize, the cut is made at the last
\* blank, line feed or tab at or before offset maxSize; it is forced at
\* maxSize only if there is none.
C24_CutAtLastWhitespace ==
    [][(CutsChunk /\ EnderStarts(ctRemaining, ctMaxSize) = {})
          => IF BlankOffsets(ctRemaining, ctMaxSize) # {}
             THEN CutAt(Greatest(BlankOffsets(ctRemaining, ctMaxSize)))
             ELSE CutAt(ctMaxSize)]_vars


\* the chunk is not empty and neither begins nor ends with whitespace
SolidChunk(c) ==
    /\ c # <<>>
    /\ c[1] \notin {" ", "\n", "\t"}
    /\ c[Len(c)] \notin {" ", "\n", "\t"}

\* C25: every chunk chunkText pushes is non-empty and has no leading or
\* trailing whitespace, so the loop of handleLongExport skips none of them
\* and runs one ladder per chunk counted in the status.
C25_ChunksSolid ==
    /\ \A k \in 1..Len(ctChunks) : SolidChunk(ctChunks[k])
    /\ \A j \in 0..(Len(ctChunks) - 1) : nextChunk(ctChunks, j) = j

\* two chunks came back, and whitespace between them was dropped
C25_Witness ==
    /\ ctPc = "returned"
    /\ Len(ctChunks) = 2
    /\ Len(Concat(ctChunks)) + 2 = Len(TrimmedText(ctText))
    /\ Len(ctText) > Len(TrimmedText(ctText))

\* C26: every iteration of the loop that goes round again has made the
\* remaining text shorter by at least one character, and the chunks never
\* outnumber the characters of the trimmed text; so chunkText returns.
C26_LoopShrinksRemaining ==
    [][/\ (ctPc = "loop" /\ ctPc' = "loop")
            => Len(ctRemaining') < Len(ctRemaining)
       /\ (ctPc = "loop")
            => Len(ctChunks') + (IF ctPc' = "loop" THEN Len(ctRemaining') ELSE 0)
                  <= Len(TrimmedText(ctText))]_vars

\* a text of five characters came back in five chunks of one character
C26_Witness ==
    /\ ctPc = "returned"
    /\ ctMaxSize = 1
    /\ Len(ctText) = 5
    /\ Len(ctChunks) = 5


\* C27: once an attempt has ended, in whatever way, its abort timer is no
\* longer pending when the ladder moves on; an export call never has a timer
\* pending besides that of its outstanding fetch.
C27_TimerReleasedWithAttempt ==
    \A e \in DOMAIN ex : ~staleTimer[e]


\* C28: in a long export the pause between chunks follows every chunk whose
\* ladder returned a blob except the last, whatever proxy or pass delivered
\* it, and nothing else; the first fetch of the next chunk is issued only
\* when the pause is over. An export of n chunks that succeeds therefore
\* pauses once after each of the chunks 1..n-1 and saves right after chunk n.
C28_PauseBetweenChunks ==
    [][\A e \in DOMAIN ex :
          (ex'[e].path = "long" /\ Steps(e)) =>
            /\ (Len(ex'[e].blobs) = Len(ex[e].blobs) + 1) =>
                  IF Len(ex'[e].blobs) < Len(ex[e].chunks)
                  THEN ex'[e].pc = "chunkDelay" /\ ex'[e].i = ex[e].i
                  ELSE ex'[e].pc = "done" /\ Len(ex'[e].saved) = 1
            /\ (ex'[e].pc = "chunkDelay") =>
                  /\ Len(ex'[e].blobs) = Len(ex[e].blobs) + 1
                  /\ Len(ex'[e].blobs) = ex'[e].i + 1
            /\ (ex[e].pc = "chunkDelay") =>
                  /\ ex'[e].pc = "fetch"
                  /\ ex'[e].i = ex[e].i + 1
            /\ (ex'[e].pc = "fetch" /\ ex'[e].i # ex[e].i) =>
                  /\ ex[e].pc = "chunkDelay"
                  /\ ex'[e].attempt = 1
                  /\ ex'[e].proxyIndex = 0]_vars

\* the second of three chunks needed the second pass, and the export now
\* pauses before the third
C28_Witness ==
    \E e \in DOMAIN ex :
        /\ ex[e].path = "long"
        /\ Len(ex[e].chunks) = 3
        /\ ex[e].pc = "chunkDelay"
        /\ ex[e].i = 1
        /\ ex[e].attempt = 2
        /\ Len(ex[e].blobs) = 2


\* C29: while the engine is speaking an utterance (started, not yet ended,
\* failed or stopped), isProcessing is true, currentUtterance is that
\* utterance and the status is active, even if callbacks of utterances
\* cancelled earlier arrive in the meantime. (Stated for an engine queue of
\* one utterance, the only case C15 allows.)
C29_StateFollowsCurrentUtterance ==
    (synthBegun /\ Len(synthQueue) = 1) =>
        /\ isProcessing
        /\ currentUtterance = Head(synthQueue)
        /\ statusActive


\* C30: an input whose effect is not yet shown has its debounce callback
\* pending, whatever happened on the other control since: while the count
\* shown differs from the length of the text the text callback is pending,
\* and while the voices listed differ from those matching the search box
\* the voice callback is pending. So each effect arrives with the delay.
C30_DebouncedInputTakesEffect ==
    /\ (charCount # Len(textInput)) => debounceTimer = "text"
    /\ (voiceList # populateVoices(voiceSearch)) => debounceTimer = "voice"

====
